---- MODULE Spec2Model ----
(***************************************************************************)
(* MinimizatorsCollection (minimizators_collection.py): construction of    *)
(* the ordered units, the per-unit update helper and the whole-collection  *)
(* update, with the caller's density vector and the working copy kept as   *)
(* separate arrays of one heap so that aliasing is observable.             *)
(*                                                                         *)
(* Numbers are uninterpreted terms.  The collection never branches on a    *)
(* density or a measurement: it only copies them, negates the LAT array    *)
(* and hands them to the unit, whose update is opaque.  A term therefore   *)
(* records where a number came from (which array, which 0-based position,  *)
(* negated or not, returned by which unit from which arguments), and every *)
(* run on concrete floats is the image of a run of this model under the    *)
(* substitution of floats for atoms.  Control flow depends on the channel  *)
(* tags, the segment indices and the array lengths only, and those are     *)
(* enumerated.                                                             *)
(***************************************************************************)
EXTENDS Integers, Sequences, FiniteSets

\* Bounds of the model.
MaxUnits == 3   \* longest segment list / channel-tag list given to the constructor
NSeg == 2       \* longest density vector / surface array

\* Channel tags: the two the code knows, and one it does not.
Tags == {"PtP", "LAT", "Other"}

\* Segment identifiers are 1-indexed positive integers; NSeg + 1 is past
\* the end of every array of the model.
SegmentIds == 1 .. (NSeg + 1)

ArrayLens == {n \in {NSeg - 1, NSeg} : n >= 1}

SeqUpTo(S, n) == UNION {[1 .. m -> S] : m \in 0 .. n}

Min(a, b) == IF a <= b THEN a ELSE b

VARIABLES
    segmentsIn,     \* constructor argument `segments`
    valueNamesIn,   \* constructor argument `value_names`
    surface_data,   \* the snapshot: ptp_mean_per_segment, lat_mean_per_segment
    heap,           \* arrays by reference; heap[CallerRef] is the caller's vector
    minimizators,   \* self.minimizators
    pc,             \* "new", "ready", "loop", "returned", "raised"
    densities,      \* update's local name `densities` (a reference), 0 outside a call
    k,              \* position of the for loop of update in self.minimizators
    calls,          \* the unit updates invoked by the current call, in order
    callNo,         \* number of update calls started
    outcomes        \* how each finished call ended: the exception raised, or
                    \* the vector returned (its reference and its elements then)

vars == <<segmentsIn, valueNamesIn, surface_data, heap, minimizators, pc,
          densities, k, calls, callNo, outcomes>>

----------------------------------------------------------------------------
\* Terms

Atom(kind, j) == [op |-> kind, idx |-> j, args |-> <<>>]

\* the unary minus of line 104, on one element
Neg(t) == [op |-> "neg", idx |-> 0, args |-> <<t>>]

\* the i-th element (0-based) of the three input arrays
DensityInput(n) == [j \in 1 .. n |-> Atom("density", j - 1)]
PtpInput(n) == [j \in 1 .. n |-> Atom("ptp", j - 1)]
LatInput(n) == [j \in 1 .. n |-> Atom("lat", j - 1)]

\* Minimizator.update(density, value) of the unit at position u of the
\* collection: an opaque deterministic function of its arguments.
MinimizatorUpdate(u, density, value) ==
    [op |-> "update", idx |-> u, args |-> <<density, value>>]

\* Minimizator(segment, value_name)
Minimizator(segment, value_name) ==
    [segment |-> segment, value_name |-> value_name]

----------------------------------------------------------------------------
\* numpy arrays

\* reference of the vector the caller passes to update
CallerRef == 1

\* ndarray.copy(): a fresh array with the same elements
NdarrayAlias(h, r) == [heap |-> h, ref |-> r]
NdarrayCopy(h, r) == [heap |-> Append(h, h[r]), ref |-> Len(h) + 1]

\* elementwise negation of an array (a new array)
NegativeIdentity(arr) == arr
Negative(arr) == [j \in 1 .. Len(arr) |-> Neg(arr[j])]

\* arr[i] for a 0-based integer i; negative i counts from the end
InBounds(arr, i) == i >= -Len(arr) /\ i < Len(arr)
Position(arr, i) == IF i >= 0 THEN i + 1 ELSE Len(arr) + i + 1

GetItemClip(arr, i) ==
    IF Len(arr) = 0 THEN [ok |-> FALSE, val |-> Atom("none", 0)]
    ELSE [ok |-> TRUE,
          val |-> arr[IF i < 0 THEN 1 ELSE IF i >= Len(arr) THEN Len(arr) ELSE i + 1]]
GetItem(arr, i) ==
    IF InBounds(arr, i) THEN [ok |-> TRUE, val |-> arr[Position(arr, i)]]
    ELSE [ok |-> FALSE, val |-> Atom("none", 0)]

\* arr[i] = v
SetItem(arr, i, v) ==
    IF InBounds(arr, i)
    THEN [ok |-> TRUE, arr |-> [arr EXCEPT ![Position(arr, i)] = v]]
    ELSE [ok |-> FALSE, arr |-> arr]

----------------------------------------------------------------------------
\* MinimizatorsCollection

\* zip(segments, value_names): pairs up to the shorter list
Zip(a, b) == [i \in 1 .. Min(Len(a), Len(b)) |-> <<a[i], b[i]>>]

MakeMinimizatorsPrepend(segments, value_names) ==
    LET z == Zip(segments, value_names)
    IN [i \in 1 .. Len(z) |-> Minimizator(z[Len(z) + 1 - i][1], z[Len(z) + 1 - i][2])]
MakeMinimizators(segments, value_names) ==
    LET z == Zip(segments, value_names)
    IN [i \in 1 .. Len(z) |-> Minimizator(z[i][1], z[i][2])]

\* the properties segments and value_names
Segments(ms) == [i \in 1 .. Len(ms) |-> ms[i].segment]
ValueNames(ms) == [i \in 1 .. Len(ms) |-> ms[i].value_name]

\* lines 100-104: the local `values`, unbound unless one of the two ifs binds it
SelectValuesElsePtp(m, sd) ==
    IF m.value_name = "LAT"
    THEN [bound |-> TRUE, arr |-> Negative(sd.lat_mean_per_segment)]
    ELSE [bound |-> TRUE, arr |-> sd.ptp_mean_per_segment]
SelectValues(m, sd) ==
    LET v0 == [bound |-> FALSE, arr |-> <<>>]
        v1 == IF m.value_name = "PtP"
              THEN [bound |-> TRUE, arr |-> sd.ptp_mean_per_segment]
              ELSE v0
    IN IF m.value_name = "LAT"
       THEN [bound |-> TRUE, arr |-> Negative(sd.lat_mean_per_segment)]
       ELSE v1

\* line 106
SegmentInd(m) == m.segment - 1

\* the index written at line 140
WriteIndSame(m) == m.segment
WriteInd(m) == m.segment - 1

NoCall == [exc |-> "none", invoked |-> FALSE,
           density |-> Atom("none", 0), value |-> Atom("none", 0),
           density_new |-> Atom("none", 0)]

\* update_minimizator of the unit at position u, on the array `arr`
UpdateMinimizator(u, m, arr, sd) ==
    LET values == SelectValues(m, sd)
        segment_ind == SegmentInd(m)
    IN IF ~values.bound THEN [NoCall EXCEPT !.exc = "UnboundLocalError"]
       ELSE LET value == GetItem(values.arr, segment_ind)
                density == GetItem(arr, segment_ind)
            IN IF ~value.ok \/ ~density.ok
               THEN [NoCall EXCEPT !.exc = "IndexError"]
               ELSE [exc |-> "none", invoked |-> TRUE,
                     density |-> density.val, value |-> value.val,
                     density_new |-> MinimizatorUpdate(u, density.val, value.val)]

\* the array update hands to update_minimizator and writes into: its local
\* name `densities`, rebound to the copy at line 134
PassedCallerArray(callerRef, localRef) == callerRef
PassedArray(callerRef, localRef) == localRef

\* the unit the for loop of line 136 visits at its step j
UnitAtStepReversed(ms, j) == Len(ms) + 1 - j
UnitAtStep(ms, j) == j

\* the for loop of line 136 is exhausted
LoopDoneEarly(ms, j) == j >= Len(ms)
LoopDone(ms, j) == j > Len(ms)

\* one iteration of the loop of update, lines 136-140
LoopBody(ms, j, h, localRef, sd) ==
    LET u == UnitAtStep(ms, j)
        m == ms[u]
        r == UpdateMinimizator(u, m, h[PassedArray(CallerRef, localRef)], sd)
        entry == [unit |-> u, density |-> r.density, value |-> r.value,
                  ret |-> r.density_new]
        w == SetItem(h[localRef], WriteInd(m), r.density_new)
    IN IF r.exc # "none"
       THEN [exc |-> r.exc, invoked |-> <<>>, heap |-> h]
       ELSE IF ~w.ok
            THEN [exc |-> "IndexError", invoked |-> <<entry>>, heap |-> h]
            ELSE [exc |-> "none", invoked |-> <<entry>>,
                  heap |-> [h EXCEPT ![localRef] = w.arr]]

----------------------------------------------------------------------------
\* The state machine

Init ==
    /\ segmentsIn \in SeqUpTo(SegmentIds, MaxUnits)
    /\ valueNamesIn \in SeqUpTo(Tags, MaxUnits)
    /\ \E np \in ArrayLens, nl \in ArrayLens :
          surface_data = [ptp_mean_per_segment |-> PtpInput(np),
                          lat_mean_per_segment |-> LatInput(nl)]
    /\ \E nd \in ArrayLens : heap = <<DensityInput(nd)>>
    /\ minimizators = <<>>
    /\ pc = "new"
    /\ densities = 0
    /\ k = 0
    /\ calls = <<>>
    /\ callNo = 0
    /\ outcomes = <<>>

\* __init__: a collection is built from the construction input, before the
\* first call and again, from the same input, before the second
Construct ==
    /\ \/ pc = "new"
       \/ pc \in {"returned", "raised"} /\ callNo = 1
    /\ minimizators' = MakeMinimizators(segmentsIn, valueNamesIn)
    /\ pc' = "ready"
    /\ UNCHANGED <<segmentsIn, valueNamesIn, surface_data, heap, densities, k,
                   calls, callNo, outcomes>>

\* update is entered with the caller's vector: line 134
CallUpdate ==
    /\ pc = "ready"
    /\ LET c == NdarrayCopy(heap, CallerRef)
       IN /\ heap' = c.heap
          /\ densities' = c.ref
    /\ k' = 1
    /\ calls' = <<>>
    /\ callNo' = callNo + 1
    /\ pc' = "loop"
    /\ UNCHANGED <<segmentsIn, valueNamesIn, surface_data, minimizators, outcomes>>

\* one iteration that completes: lines 136-140
LoopStep ==
    /\ pc = "loop"
    /\ ~LoopDone(minimizators, k)
    /\ LET b == LoopBody(minimizators, k, heap, densities, surface_data)
       IN /\ b.exc = "none"
          /\ heap' = b.heap
          /\ calls' = calls \o b.invoked
    /\ k' = k + 1
    /\ UNCHANGED <<segmentsIn, valueNamesIn, surface_data, minimizators, pc,
                   densities, callNo, outcomes>>

\* one iteration that raises: the exception leaves update
LoopRaise ==
    /\ pc = "loop"
    /\ ~LoopDone(minimizators, k)
    /\ LET b == LoopBody(minimizators, k, heap, densities, surface_data)
       IN /\ b.exc # "none"
          /\ heap' = b.heap
          /\ calls' = calls \o b.invoked
          /\ outcomes' = Append(outcomes, [kind |-> "raise", exc |-> b.exc,
                                          ref |-> 0, vec |-> <<>>])
    /\ pc' = "raised"
    /\ UNCHANGED <<segmentsIn, valueNamesIn, surface_data, minimizators,
                   densities, k, callNo>>

\* line 142
Return ==
    /\ pc = "loop"
    /\ LoopDone(minimizators, k)
    /\ outcomes' = Append(outcomes, [kind |-> "return", exc |-> "none",
                                    ref |-> densities, vec |-> heap[densities]])
    /\ pc' = "returned"
    /\ UNCHANGED <<segmentsIn, valueNamesIn, surface_data, heap, minimizators,
                   densities, k, calls, callNo>>

Next == Construct \/ CallUpdate \/ LoopStep \/ LoopRaise \/ Return

Spec == Init /\ [][Next]_vars

----------------------------------------------------------------------------
\* What the claims speak of

\* the caller's vector as it was passed
CallerD == heap[CallerRef]
OriginalD == DensityInput(Len(CallerD))

SegmentOf(u) == minimizators[u].segment
TagOf(u) == minimizators[u].value_name
Units == 1 .. Len(minimizators)
KnownTag(u) == TagOf(u) \in {"PtP", "LAT"}

\* the surface array a unit's channel selects
SurfaceArray(u) ==
    IF TagOf(u) = "LAT" THEN surface_data.lat_mean_per_segment
    ELSE surface_data.ptp_mean_per_segment

\* the unit's segment lies within the working vector and its surface array
WithinBounds(u) ==
    /\ SegmentOf(u) <= Len(heap[densities])
    /\ SegmentOf(u) <= Len(SurfaceArray(u))

Max(S) == CHOOSE x \in S : \A y \in S : y <= x

\* the outcome of the call that has just finished
LastOutcome == outcomes[Len(outcomes)]

\* the entries of the log made by the units of segment s
EntriesAt(s) == {n \in 1 .. Len(calls) : SegmentOf(calls[n].unit) = s}

\* C1: the caller's density vector keeps every element it was passed with,
\* in every state of a call, whether the call returns or raises part-way.
C1_NonMutation == CallerD = OriginalD

\* a call has raised after at least one unit wrote into the working copy
C1_Witness ==
    /\ pc = "raised"
    /\ Len(calls) >= 1
    /\ heap[densities] # CallerD

\* C2: a returned vector is as long as the input, and every position that
\* is segment - 1 of no owned unit holds the input's element.
C2_PassThrough ==
    pc = "returned" =>
        LET out == LastOutcome.vec
        IN /\ Len(out) = Len(OriginalD)
           /\ \A i \in 0 .. (Len(OriginalD) - 1) :
                 (\A u \in Units : SegmentOf(u) - 1 # i) => out[i + 1] = OriginalD[i + 1]

\* a call returned with one position rewritten and another left alone
C2_Witness ==
    /\ pc = "returned"
    /\ \E i, j \in 0 .. (Len(OriginalD) - 1) :
          /\ \A u \in Units : SegmentOf(u) - 1 # i
          /\ \E u \in Units : SegmentOf(u) - 1 = j
          /\ LastOutcome.vec[j + 1] # OriginalD[j + 1]

\* a step that updates a unit hands it the right measurement and density
C3_Step ==
    Len(calls') = Len(calls) + 1 =>
        LET e == calls'[Len(calls')]
            u == e.unit
            s == SegmentOf(u)
        IN /\ s >= 1
           /\ TagOf(u) = "LAT" =>
                 /\ e.value = Neg(surface_data.lat_mean_per_segment[s])
                 /\ e.value = Neg(Atom("lat", s - 1))
           /\ TagOf(u) = "PtP" =>
                 /\ e.value = surface_data.ptp_mean_per_segment[s]
                 /\ e.value = Atom("ptp", s - 1)
           /\ e.density = heap[densities][s]

\* C3: whenever a unit of segment s is updated, the measurement it gets is
\* the element s-1 of the LAT array negated for a LAT unit and the element
\* s-1 of the PtP array as it is for a PtP unit, and the density it gets is
\* the element s-1 of the working vector.
C3_SignAndIndex == [][C3_Step]_vars

\* one call has updated a PtP unit and a LAT unit
C3_Witness ==
    /\ \E n \in 1 .. Len(calls) : TagOf(calls[n].unit) = "LAT"
    /\ \E n \in 1 .. Len(calls) : TagOf(calls[n].unit) = "PtP"

\* C4: when several units share a segment s, a returned vector holds at
\* s-1 what the last of them in construction order returned, and nothing an
\* earlier one returned.
C4_LastWins ==
    pc = "returned" =>
        \A s \in SegmentIds :
            LET U == {u \in Units : SegmentOf(u) = s}
            IN Cardinality(U) >= 2 =>
                  \A n \in 1 .. Len(calls) :
                      LET u == calls[n].unit
                      IN u \in U =>
                            IF u = Max(U)
                            THEN LastOutcome.vec[s] = calls[n].ret
                            ELSE LastOutcome.vec[s] # calls[n].ret

\* a call returned from a collection with two units of one segment
C4_Witness ==
    /\ pc = "returned"
    /\ \E u, v \in Units : u # v /\ SegmentOf(u) = SegmentOf(v)
    /\ Len(calls) = Len(minimizators)

\* C5: a constructed collection has min(len(segments), len(value_names))
\* units, the i-th made of the i-th segment and the i-th tag, and the
\* accessors give those segments and tags in that order.
C5_Construction ==
    pc # "new" =>
        LET n == Min(Len(segmentsIn), Len(valueNamesIn))
        IN /\ Len(minimizators) = n
           /\ \A i \in 1 .. n :
                 /\ minimizators[i].segment = segmentsIn[i]
                 /\ minimizators[i].value_name = valueNamesIn[i]
           /\ Segments(minimizators) = SubSeq(segmentsIn, 1, n)
           /\ ValueNames(minimizators) = SubSeq(valueNamesIn, 1, n)

\* a collection of two different units was built from lists of unequal length
C5_Witness ==
    /\ pc = "ready"
    /\ Len(segmentsIn) # Len(valueNamesIn)
    /\ Len(minimizators) >= 2
    /\ minimizators[1] # minimizators[2]

\* units of unknown tag: what holds in every state, and of the step that reaches one
C6_Inv ==
    /\ \A n \in 1 .. Len(calls) : KnownTag(calls[n].unit)
    /\ pc = "loop" => \A u \in Units : u < k => KnownTag(u)
    /\ pc = "returned" => \A u \in Units : KnownTag(u)
    /\ (pc = "raised" /\ ~KnownTag(k)) =>
          /\ LastOutcome = [kind |-> "raise", exc |-> "UnboundLocalError",
                            ref |-> 0, vec |-> <<>>]
          /\ Len(outcomes) = callNo
          /\ Len(calls) = k - 1
C6_Step ==
    (pc = "loop" /\ k \in Units /\ ~KnownTag(k)) =>
        /\ pc' = "raised"
        /\ calls' = calls
        /\ heap' = heap
        /\ k' = k

\* C6: a unit whose tag is neither PtP nor LAT is never updated; the call
\* that reaches it raises there, before any update of it, returns no vector
\* and goes no further.
C6_UnknownTag == []C6_Inv /\ [][C6_Step]_vars

\* a call raised at a unit of unknown tag after updating an earlier unit
C6_Witness ==
    /\ pc = "raised"
    /\ ~KnownTag(k)
    /\ Len(calls) >= 1

\* units out of range: what holds in every state, and of the step that reaches one
C7_Inv ==
    /\ \A n \in 1 .. Len(calls) : WithinBounds(calls[n].unit)
    /\ pc = "loop" => \A u \in Units : u < k => WithinBounds(u)
    /\ pc = "returned" => \A u \in Units : WithinBounds(u)
    /\ (pc = "raised" /\ KnownTag(k) /\ ~WithinBounds(k)) =>
          /\ LastOutcome = [kind |-> "raise", exc |-> "IndexError",
                            ref |-> 0, vec |-> <<>>]
          /\ Len(outcomes) = callNo
          /\ Len(calls) = k - 1
C7_Step ==
    (pc = "loop" /\ k \in Units /\ KnownTag(k) /\ ~WithinBounds(k)) =>
        /\ pc' = "raised"
        /\ calls' = calls
        /\ heap' = heap
        /\ k' = k

\* C7: a unit of tag PtP or LAT whose segment exceeds the length of the
\* density vector or of the surface array its tag selects is never updated; the call that reaches it raises
\* IndexError there, returns no vector and goes no further.
C7_IndexError == []C7_Inv /\ [][C7_Step]_vars

\* a call raised, after updating an earlier unit, at a unit whose segment
\* is past the density vector but within its surface array
C7_Witness ==
    /\ pc = "raised"
    /\ KnownTag(k)
    /\ SegmentOf(k) > Len(heap[densities])
    /\ SegmentOf(k) <= Len(SurfaceArray(k))
    /\ Len(calls) >= 1

\* C8: two calls with the same vector and snapshot, on collections built
\* from the same construction input, end the same way, and the vectors
\* they return are equal element by element.
C8_Determinism ==
    Len(outcomes) = 2 =>
        /\ outcomes[1].kind = outcomes[2].kind
        /\ outcomes[1].exc = outcomes[2].exc
        /\ outcomes[1].vec = outcomes[2].vec

\* both calls returned, two different arrays, each rewritten by two units
C8_Witness ==
    /\ Len(outcomes) = 2
    /\ outcomes[1].kind = "return"
    /\ outcomes[2].kind = "return"
    /\ outcomes[1].ref # outcomes[2].ref
    /\ Len(calls) >= 2
    /\ outcomes[2].vec # CallerD

\* C9: the units are updated once each, in construction order, each one's
\* result written into the working vector before the next is taken up, and
\* the call returns after the last.
C9_Sequential ==
    /\ \A n \in 1 .. Len(calls) : calls[n].unit = n
    /\ pc = "loop" => Len(calls) = k - 1
    /\ pc = "returned" => Len(calls) = Len(minimizators) /\ k = Len(minimizators) + 1
    /\ pc \in {"loop", "returned"} =>
          \A n \in 1 .. Len(calls) :
              LET s == SegmentOf(calls[n].unit)
              IN n = Max(EntriesAt(s)) => heap[densities][s] = calls[n].ret

\* a call over three units, two of them of one segment, has returned
C9_Witness ==
    /\ pc = "returned"
    /\ Len(minimizators) >= 3
    /\ \E u, v \in Units : u # v /\ SegmentOf(u) = SegmentOf(v)
    /\ Len(calls) = Len(minimizators)

\* C10: the density a unit of segment s is updated with is the input's
\* element s-1 when no earlier unit of this call had segment s, and what
\* the latest such unit returned otherwise.
C10_WorkingCopyRead ==
    \A n \in 1 .. Len(calls) :
        LET s == SegmentOf(calls[n].unit)
            prev == {j \in EntriesAt(s) : j < n}
        IN calls[n].density =
              IF prev = {} THEN Atom("density", s - 1) ELSE calls[Max(prev)].ret

\* a unit was updated with what an earlier unit of its segment returned
C10_Witness ==
    \E n \in 1 .. Len(calls) :
        \E j \in 1 .. (n - 1) :
            /\ SegmentOf(calls[j].unit) = SegmentOf(calls[n].unit)
            /\ calls[n].density = calls[j].ret

====
